---- MODULE Spec2Model ----
(***************************************************************************)
(* Model of the toponym pipeline of src/dashboard.py: the three functions  *)
(* memoised with functools.cache (dbpedia_lookup, dbpedia_top1, geocode),  *)
(* resolution, count_table and the callback fetch_and_map that runs them   *)
(* over the LOC occurrences of a page.                                     *)
(*                                                                         *)
(* The two web services are the environment: every request gets an answer  *)
(* chosen among the answers the services can give (an HTTP error, or a     *)
(* JSON document).  The named-entity recogniser and the page download are  *)
(* inputs: a run starts from the list loc of LOC occurrences.              *)
(*                                                                         *)
(* Python values.  None is the string "None".  A float is written by its   *)
(* repr ("0.0", "2.5"), so that an optional float is always a string.  A   *)
(* call returns a record [exc, val]: exc = "" for a normal return, else    *)
(* the name of the exception that propagates.                              *)
(***************************************************************************)
EXTENDS Integers, Sequences, FiniteSets, TLC

\* Longest list of LOC occurrences of one run.
MaxLen == 3
\* Number of times the callback runs in one process.
MaxRuns == 2

None == "None"
Toponymes == {"Paris", "Lyon"}
URIs == {"dbr:Paris", "dbr:Lyon"}
\* Arguments geocode is called with: count_table also passes it None.
GeoKeys == URIs \cup {None}

Ret(v) == [exc |-> "", val |-> v]
Raise(e) == [exc |-> e, val |-> None]

\* dict.get(k, default)
Get(d, k, default) == IF k \in DOMAIN d THEN d[k] ELSE default

(***************************************************************************)
(* The services' answers.  A request fails (the connection, or the status  *)
(* raise_for_status refuses) or is answered by a JSON document.  The       *)
(* entity search answers with no document or with documents that carry a   *)
(* resource list, the first being the entity it ranks first for the        *)
(* toponym; the geocoding service answers with any number of bindings,     *)
(* each with or without lat and long, whose values are strings.  The same  *)
(* request may be answered differently each time it is sent.               *)
(***************************************************************************)
\* Strings a binding can carry as the value of lat or long: zero, a number,
\* and a string float() does not parse.
Literals == {"0", "2.50", "n/a"}
\* A binding: lat and long are each optional.
Bindings == UNION {[S -> [value : Literals]] : S \in SUBSET {"lat", "long"}}
FullBinding == [k \in {"lat", "long"} |-> [value |-> "2.50"]]
BindingLists == {<<>>} \cup {<<b>> : b \in Bindings}
                  \cup {<<<<>>, FullBinding>>, <<FullBinding, <<>>>>}
\* Answers to the POST of geocode.
SparqlResponses == {[status |-> "error", json |-> <<>>]}
    \cup {[status |-> "ok", json |-> <<>>]}
    \cup {[status |-> "ok", json |-> [results |-> [bindings |-> bs]]] : bs \in BindingLists}

\* The entity the search service ranks first for a toponym, when it knows one.
UriOf == [t \in Toponymes |-> IF t = "Paris" THEN "dbr:Paris" ELSE "dbr:Lyon"]
Doc(u) == [resource |-> <<u>>]
DocLists(t) == {<<>>, <<Doc(UriOf[t])>>}
\* Answers to the GET of dbpedia_lookup for toponym t.
LookupResponses(t) == {[status |-> "error", json |-> <<>>]}
    \cup {[status |-> "ok", json |-> <<>>]}
    \cup {[status |-> "ok", json |-> [docs |-> ds]] : ds \in DocLists(t)}
\* No request, no answer.
NoAnswer == [status |-> "none", json |-> <<>>]

(***************************************************************************)
(* float(), truth values, or.                                              *)
(***************************************************************************)
\* The strings float() parses, with the repr of the float each denotes.
FloatRepr == [s \in {"0", "0.0", "-0.0", "2.5", "2.50"} |->
                 CASE s = "0"    -> "0.0"
                   [] s = "0.0"  -> "0.0"
                   [] s = "-0.0" -> "-0.0"
                   [] s = "2.5"  -> "2.5"
                   [] s = "2.50" -> "2.5"]

float(x) ==
    IF x = None THEN Raise("TypeError")
    ELSE IF x \in DOMAIN FloatRepr THEN Ret(FloatRepr[x])
    ELSE Raise("ValueError")

\* bool(x) of an optional float or an optional string.
Truthy(x) == x \notin {None, "", "0.0", "-0.0"}

\* x or y
Or(x, y) == IF Truthy(x) THEN x ELSE y

(***************************************************************************)
(* State.                                                                  *)
(***************************************************************************)
VARIABLES
    lookup_cache,         \* the cache of dbpedia_lookup: toponym -> docs
    top1_cache,           \* the cache of dbpedia_top1: toponym -> URI or None
    geocode_cache,        \* the cache of geocode: argument -> (lat, long)
    pc,                   \* where the callback is
    loc,                  \* the LOC occurrences of the run
    coordonnees,          \* resolution of loc[1..Len(coordonnees)]
    coordonnees_valides,  \* the list given to the heat map
    loc_dict,             \* count_table's dict, in insertion order
    df,                   \* the frame count_table returns
    exc,                  \* the exception the run ended with, or ""
    runs,                 \* runs started
    lookup_reqs,          \* GET requests sent, per toponym
    geocode_reqs,         \* POST requests sent, per argument
    failed,               \* <<function, key>> whose latest call raised
    log,                  \* the calls of the cached functions in the last step
    sparql,               \* the POST exchange of the last step, if any
    prev                  \* the run before, if it completed on the same loc

vars == <<lookup_cache, top1_cache, geocode_cache, pc, loc, coordonnees,
          coordonnees_valides, loc_dict, df, exc, runs, lookup_reqs,
          geocode_reqs, failed, log, sparql, prev>>

NoExchange == [sent |-> FALSE, uri |-> None, status |-> "none", json |-> <<>>]
NoRun == [ran |-> FALSE, loc |-> <<>>, coordonnees_valides |-> <<>>, df |-> <<>>]

(***************************************************************************)
(* functools.cache.  The wrapper looks the argument up in the function's   *)
(* store; on a miss it calls the function and stores what it returns.  An  *)
(* exception leaves the wrapper before the store is written.               *)
(***************************************************************************)
\* A wrapper that never finds the argument in its store.
CacheHitNever(cache, key) == FALSE

CacheHit(cache, key) == key \in DOMAIN cache

\* A wrapper that stores the outcome of a call that raised, too.
CacheStoreAlways(cache, key, r) == (key :> r.val) @@ cache

\* A wrapper that stores nothing.
CacheStoreNever(cache, key, r) == cache

CacheStore(cache, key, r) ==
    IF r.exc = "" THEN (key :> r.val) @@ cache ELSE cache

\* The state the cached functions read and write, threaded through the calls
\* of one step.
World == [lookup_cache |-> lookup_cache, top1_cache |-> top1_cache,
          geocode_cache |-> geocode_cache, lookup_reqs |-> lookup_reqs,
          geocode_reqs |-> geocode_reqs, failed |-> failed,
          log |-> <<>>, sparql |-> NoExchange]

\* Bookkeeping of a call of a cached function that ended with r: requested
\* tells whether a network request was sent while it ran.
Called(w, fn, key, requested, r) ==
    [w EXCEPT !.log = Append(@, [fn |-> fn, key |-> key,
                                 requested |-> requested, exc |-> r.exc]),
              !.failed = IF r.exc # "" THEN @ \cup {<<fn, key>>}
                         ELSE @ \ {<<fn, key>>}]

\* The body of dbpedia_lookup, given the service's answer to its GET.
dbpedia_lookup_body(get) ==
    IF get.status # "ok" THEN Raise("HTTPError")
    ELSE Ret(Get(get.json, "docs", <<>>))

dbpedia_lookup(w, toponyme, get) ==
    IF CacheHit(w.lookup_cache, toponyme)
    THEN LET r == Ret(w.lookup_cache[toponyme])
         IN  [w |-> Called(w, "dbpedia_lookup", toponyme, FALSE, r), ret |-> r]
    ELSE LET r == dbpedia_lookup_body(get)
             w1 == [w EXCEPT !.lookup_reqs[toponyme] = @ + 1,
                             !.lookup_cache = CacheStore(@, toponyme, r)]
         IN  [w |-> Called(w1, "dbpedia_lookup", toponyme, TRUE, r), ret |-> r]

\* The body of dbpedia_top1, given what dbpedia_lookup returned.
dbpedia_top1_body(r) ==
    IF r.exc # "" THEN r
    ELSE IF r.val = <<>> THEN Ret(None)
    ELSE Ret(r.val[1].resource[1])

dbpedia_top1(w, toponyme, get) ==
    IF CacheHit(w.top1_cache, toponyme)
    THEN LET r == Ret(w.top1_cache[toponyme])
         IN  [w |-> Called(w, "dbpedia_top1", toponyme, FALSE, r), ret |-> r]
    ELSE LET l == dbpedia_lookup(w, toponyme, get)
             r == dbpedia_top1_body(l.ret)
             w1 == [l.w EXCEPT !.top1_cache = CacheStore(@, toponyme, r)]
         IN  [w |-> Called(w1, "dbpedia_top1", toponyme,
                           l.w.lookup_reqs # w.lookup_reqs, r),
              ret |-> r]

\* The body of geocode, given the service's answer to its POST.
geocode_body(post) ==
    IF post.status # "ok" THEN Raise("HTTPError")
    ELSE LET bindings == Get(Get(post.json, "results", <<>>), "bindings", <<>>)
         IN  IF bindings = <<>> THEN Ret(<<None, None>>)
             ELSE LET first == bindings[1]
                      lat == float(Get(Get(first, "lat", <<>>), "value", None))
                      long == float(Get(Get(first, "long", <<>>), "value", None))
                  IN  IF lat.exc # "" THEN lat
                      ELSE IF long.exc # "" THEN long
                      ELSE Ret(<<Or(lat.val, None), Or(long.val, None)>>)

geocode(w, uri, post) ==
    IF CacheHit(w.geocode_cache, uri)
    THEN LET r == Ret(w.geocode_cache[uri])
         IN  [w |-> Called(w, "geocode", uri, FALSE, r), ret |-> r]
    ELSE LET r == geocode_body(post)
             w1 == [w EXCEPT !.geocode_reqs[uri] = @ + 1,
                             !.geocode_cache = CacheStore(@, uri, r),
                             !.sparql = [sent |-> TRUE, uri |-> uri,
                                         status |-> post.status,
                                         json |-> post.json]]
         IN  [w |-> Called(w1, "geocode", uri, TRUE, r), ret |-> r]

resolution(w, toponyme, get, post) ==
    LET t == dbpedia_top1(w, toponyme, get)
    IN  IF t.ret.exc # "" THEN t
        ELSE IF ~Truthy(t.ret.val) THEN [w |-> t.w, ret |-> Ret(<<None, None>>)]
        ELSE geocode(t.w, t.ret.val, post)

(***************************************************************************)
(* count_table.                                                            *)
(***************************************************************************)
RECURSIVE Count(_, _)
Count(s, x) ==
    IF s = <<>> THEN 0 ELSE (IF Head(s) = x THEN 1 ELSE 0) + Count(Tail(s), x)

\* The keys of dict(Counter(loc)): the distinct elements, in order of first
\* occurrence.
RECURSIVE Keys(_)
Keys(s) ==
    IF s = <<>> THEN <<>>
    ELSE LET init == SubSeq(s, 1, Len(s) - 1)
             last == s[Len(s)]
         IN  IF \E i \in 1..Len(init) : init[i] = last
             THEN Keys(init) ELSE Append(Keys(init), last)

\* dict(Counter(loc)): an entry per key; value is the count until the loop
\* of count_table replaces it by the list [count, URI, coordinates].
Counter(s) ==
    [i \in 1..Len(Keys(s)) |->
        [key |-> Keys(s)[i], occs |-> Count(s, Keys(s)[i]), filled |-> FALSE,
         db_pedia |-> None, coordinates |-> <<None, None>>]]

\* One turn of the loop of count_table, for the entry e.
count_table_item(w, e, get, post) ==
    LET a == dbpedia_top1(w, e.key, get)
    IN  IF a.ret.exc # "" THEN a
        ELSE LET b == dbpedia_top1(a.w, e.key, get)
             IN  IF b.ret.exc # "" THEN b
                 ELSE LET g == geocode(b.w, b.ret.val, post)
                      IN  IF g.ret.exc # "" THEN g
                          ELSE [w |-> g.w,
                                ret |-> Ret([e EXCEPT !.filled = TRUE,
                                                      !.db_pedia = a.ret.val,
                                                      !.coordinates = g.ret.val])]

\* pandas.isna of one cell of an object column: None is missing, a str is
\* not, and neither is a tuple, whatever it holds.
isna(type, v) == type = "str" /\ v = None

\* DataFrame.from_dict(loc_dict, orient='index', columns=[occs, db_pedia,
\* coordinates]): a row per entry, indexed by the key.
from_dict(d) ==
    [i \in 1..Len(d) |-> [index |-> d[i].key, occs |-> d[i].occs,
                          db_pedia |-> d[i].db_pedia,
                          coordinates |-> d[i].coordinates]]

RowHasNa(row) ==
    \/ isna("int", row.occs)
    \/ isna("str", row.db_pedia)
    \/ isna("tuple", row.coordinates)

\* df.dropna(how='any', axis=0)
dropna(frame) == SelectSeq(frame, LAMBDA row : ~RowHasNa(row))

\* The order of ascending=True.
BeforeAscending(a, b) == a.occs < b.occs

\* Whether row a goes before row b when sorting by occs, descending.
Before(a, b) == a.occs > b.occs

\* df.sort_values(by=['occs'], ascending=False): rows by occs descending; on
\* frames this small the sort leaves rows of equal occs in their order.
RECURSIVE sort_values(_)
sort_values(frame) ==
    IF frame = <<>> THEN <<>>
    ELSE LET rest == sort_values(Tail(frame))
             h == Head(frame)
             n == Cardinality({i \in 1..Len(rest) : Before(rest[i], h)})
         IN  SubSeq(rest, 1, n) \o <<h>> \o SubSeq(rest, n + 1, Len(rest))

\* A filter that keeps a pair as soon as one component is there.
ValideEither(c) == Truthy(c[1]) \/ Truthy(c[2])

\* The filter of the comprehension that builds coordonnees_valides.
Valide(c) == Truthy(c[1]) /\ Truthy(c[2])

(***************************************************************************)
(* The callback fetch_and_map, step by step.                               *)
(***************************************************************************)
Locs == UNION {[1..n -> Toponymes] : n \in 0..MaxLen}

Init ==
    /\ lookup_cache = <<>>
    /\ top1_cache = <<>>
    /\ geocode_cache = <<>>
    /\ pc = "idle"
    /\ loc = <<>>
    /\ coordonnees = <<>>
    /\ coordonnees_valides = <<>>
    /\ loc_dict = <<>>
    /\ df = <<>>
    /\ exc = ""
    /\ runs = 0
    /\ lookup_reqs = [t \in Toponymes |-> 0]
    /\ geocode_reqs = [u \in GeoKeys |-> 0]
    /\ failed = {}
    /\ log = <<>>
    /\ sparql = NoExchange
    /\ prev = NoRun

\* The state of the cached functions after the calls of a step.
Commit(w) ==
    /\ lookup_cache' = w.lookup_cache
    /\ top1_cache' = w.top1_cache
    /\ geocode_cache' = w.geocode_cache
    /\ lookup_reqs' = w.lookup_reqs
    /\ geocode_reqs' = w.geocode_reqs
    /\ failed' = w.failed
    /\ log' = w.log
    /\ sparql' = w.sparql

NoCall ==
    /\ log' = <<>>
    /\ sparql' = NoExchange
    /\ UNCHANGED <<lookup_cache, top1_cache, geocode_cache, lookup_reqs,
                   geocode_reqs, failed>>

\* The answers the services may give to the requests of a step, where r is the
\* step run without answers: an answer is drawn for each request it sends.
Gets(r, t) ==
    IF \E i \in DOMAIN r.w.log : r.w.log[i].fn = "dbpedia_lookup" /\ r.w.log[i].requested
    THEN LookupResponses(t) ELSE {NoAnswer}

Posts(r) ==
    IF r.w.sparql.sent THEN SparqlResponses ELSE {NoAnswer}

\* The button is clicked: the page is fetched and the recogniser gives the
\* LOC occurrences l.
Start(l) ==
    /\ pc \in {"idle", "done", "raised"}
    /\ runs < MaxRuns
    /\ runs' = runs + 1
    /\ prev' = IF pc = "done" /\ l = loc
               THEN [ran |-> TRUE, loc |-> loc,
                     coordonnees_valides |-> coordonnees_valides, df |-> df]
               ELSE NoRun
    /\ loc' = l
    /\ coordonnees' = <<>>
    /\ coordonnees_valides' = <<>>
    /\ loc_dict' = <<>>
    /\ df' = <<>>
    /\ exc' = ""
    /\ pc' = "resolution"
    /\ log' = <<>>
    /\ sparql' = NoExchange
    /\ UNCHANGED <<lookup_cache, top1_cache, geocode_cache, lookup_reqs,
                   geocode_reqs, failed>>

\* resolution(toponyme) for the next element of loc, the services answering
\* get and post.
ResolveWith(get, post) ==
    /\ LET r == resolution(World, loc[Len(coordonnees) + 1], get, post)
       IN  /\ Commit(r.w)
           /\ IF r.ret.exc # ""
              THEN /\ exc' = r.ret.exc
                   /\ pc' = "raised"
                   /\ UNCHANGED coordonnees
              ELSE /\ coordonnees' = Append(coordonnees, r.ret.val)
                   /\ UNCHANGED <<exc, pc>>
    /\ UNCHANGED <<loc, coordonnees_valides, loc_dict, df, runs, prev>>

\* One element of the comprehension [resolution(toponyme) for toponyme in loc].
Resolve ==
    /\ pc = "resolution"
    /\ Len(coordonnees) < Len(loc)
    /\ LET t == loc[Len(coordonnees) + 1]
       IN  \E get \in Gets(resolution(World, t, NoAnswer, NoAnswer), t) :
             \E post \in Posts(resolution(World, t, get, NoAnswer)) :
               ResolveWith(get, post)

\* The comprehension is over: the valid coordinates are kept for the heat map
\* and count_table starts by counting the occurrences.
BuildMap ==
    /\ pc = "resolution"
    /\ Len(coordonnees) = Len(loc)
    /\ coordonnees_valides' = SelectSeq(coordonnees, Valide)
    /\ loc_dict' = Counter(loc)
    /\ pc' = "count_table"
    /\ NoCall
    /\ UNCHANGED <<loc, coordonnees, df, exc, runs, prev>>

\* The entry the loop of count_table fills next.
NextItem == CHOOSE i \in 1..Len(loc_dict) :
                /\ ~loc_dict[i].filled
                /\ \A j \in 1..(i - 1) : loc_dict[j].filled

\* The next turn of the loop of count_table, the services answering get and
\* post.
CountItemWith(get, post) ==
    /\ LET r == count_table_item(World, loc_dict[NextItem], get, post)
       IN  /\ Commit(r.w)
           /\ IF r.ret.exc # ""
              THEN /\ exc' = r.ret.exc
                   /\ pc' = "raised"
                   /\ UNCHANGED loc_dict
              ELSE /\ loc_dict' = [loc_dict EXCEPT ![NextItem] = r.ret.val]
                   /\ UNCHANGED <<exc, pc>>
    /\ UNCHANGED <<loc, coordonnees, coordonnees_valides, df, runs, prev>>

\* One turn of the loop of count_table.
CountItem ==
    /\ pc = "count_table"
    /\ \E i \in 1..Len(loc_dict) : ~loc_dict[i].filled
    /\ LET e == loc_dict[NextItem]
       IN  \E get \in Gets(count_table_item(World, e, NoAnswer, NoAnswer), e.key) :
             \E post \in Posts(count_table_item(World, e, get, NoAnswer)) :
               CountItemWith(get, post)

\* The loop is over: the frame is built, cleaned and sorted, and the callback
\* returns.
Return ==
    /\ pc = "count_table"
    /\ \A i \in 1..Len(loc_dict) : loc_dict[i].filled
    /\ df' = sort_values(dropna(from_dict(loc_dict)))
    /\ pc' = "done"
    /\ NoCall
    /\ UNCHANGED <<loc, coordonnees, coordonnees_valides, loc_dict, exc, runs,
                   prev>>

Next ==
    \/ \E l \in Locs : Start(l)
    \/ Resolve
    \/ BuildMap
    \/ CountItem
    \/ Return

Spec == Init /\ [][Next]_vars

(***************************************************************************)
(* What the claims speak of.                                               *)
(***************************************************************************)
CacheOf(fn) ==
    CASE fn = "dbpedia_lookup" -> lookup_cache
      [] fn = "dbpedia_top1" -> top1_cache
      [] fn = "geocode" -> geocode_cache

\* The run returned, or ended with an exception.
Over == pc \in {"done", "raised"}

\* The entity-search service answered that it knows no candidate for t.
NoCandidate(t) == t \in DOMAIN lookup_cache /\ lookup_cache[t] = <<>>

Present(c) == c[1] # None /\ c[2] # None

\* The first binding of the answer the geocoding service gave in the last
\* step, when it gave one.
Answered == sparql.status = "ok"
FirstBindings ==
    LET bs == Get(Get(sparql.json, "results", <<>>), "bindings", <<>>)
    IN  IF Answered /\ bs # <<>> THEN {bs[1]} ELSE {}
\* The call of geocode that sent the request of the last step.
GeocodeCall == log[Len(log)]
Zero(b, k) == k \in DOMAIN b /\ b[k].value \in {"0", "0.0"}
Parses(b, k) == k \in DOMAIN b /\ b[k].value \in DOMAIN FloatRepr

\* What the stores say of the resolution of toponym t, once it is resolved.
Coordinate(t) ==
    IF top1_cache[t] = None THEN <<None, None>> ELSE geocode_cache[top1_cache[t]]
Occurrences(t) == Cardinality({i \in 1..Len(loc) : loc[i] = t})

\* C1: when geocode raises a transport failure for one toponym of a run in
\* which another toponym resolved to a coordinate, the run does not raise: it
\* returns, the resolved toponym is in both outputs and the failing one in
\* neither.
C1_FailureIsolated ==
    /\ (/\ sparql.sent /\ sparql.status = "error" /\ sparql.uri \in URIs
        /\ \E i \in 1..Len(coordonnees) : Present(coordonnees[i]))
       => pc # "raised"
    /\ pc = "done"
       => \A t \in Toponymes :
             (\E i \in 1..Len(loc) : loc[i] = t)
             => LET resolved == /\ t \in DOMAIN top1_cache
                                /\ top1_cache[t] \in DOMAIN geocode_cache
                                /\ Present(geocode_cache[top1_cache[t]])
                IN  /\ resolved <=> \E i \in 1..Len(df) : df[i].index = t
                    /\ resolved <=> \E i \in 1..Len(loc) :
                                       loc[i] = t /\ Present(coordonnees[i])

\* C2: when the first binding of the service's answer has latitude 0.0 and
\* longitude 0.0, geocode returns (0.0, 0.0), and the pipeline keeps that
\* coordinate in the valid list.
C2_ZeroPreserved ==
    /\ \A b \in FirstBindings :
          Zero(b, "lat") /\ Zero(b, "long")
          => /\ GeocodeCall.exc = ""
             /\ geocode_cache[sparql.uri] = <<"0.0", "0.0">>
    /\ pc \in {"count_table", "done"}
       => \A i \in 1..Len(coordonnees) :
             coordonnees[i] = <<"0.0", "0.0">>
             => \E j \in 1..Len(coordonnees_valides) :
                   coordonnees_valides[j] = coordonnees[i]

\* C3: a toponym for which the entity search returned no candidate resolves
\* to the absent pair and is in neither output of the run; a run whose only
\* occurrence is such a toponym returns an empty list and an empty table.
C3_NoCandidateExcluded ==
    /\ \A i \in 1..Len(coordonnees) :
          NoCandidate(loc[i]) => coordonnees[i] = <<None, None>>
    /\ pc = "done"
       => \A i \in 1..Len(df) : ~NoCandidate(df[i].index)
    /\ (Over /\ Len(loc) = 1 /\ NoCandidate(loc[1]))
       => pc = "done" /\ coordonnees_valides = <<>> /\ df = <<>>

\* C4: every row of the table count_table returns has an entity reference
\* and a coordinate with latitude and longitude; without any such row the
\* table is empty and the run does not fail for it.
C4_OnlyResolvedRows ==
    pc = "done"
    => \A i \in 1..Len(df) :
          df[i].db_pedia # None /\ Present(df[i].coordinates)

\* C5 as stated: no toponym is sent to the entity search more than once and
\* no entity reference to the geocoding service more than once.
C5_AtMostOneRequest ==
    /\ \A t \in Toponymes : lookup_reqs[t] <= 1
    /\ \A u \in GeoKeys : geocode_reqs[u] <= 1

\* C5 amended: once a request for a key has succeeded, no request is sent
\* for that key again and every later call returns the stored value: a step
\* sends no request for a key that is in the store, leaves the stored value
\* as it is, and its calls on such a key neither send a request nor raise.
C5_OnceAnsweredNeverAsked ==
    [][/\ \A t \in DOMAIN lookup_cache :
             /\ lookup_reqs'[t] = lookup_reqs[t]
             /\ t \in DOMAIN lookup_cache' /\ lookup_cache'[t] = lookup_cache[t]
       /\ \A t \in DOMAIN top1_cache :
             /\ lookup_reqs'[t] = lookup_reqs[t]
             /\ t \in DOMAIN top1_cache' /\ top1_cache'[t] = top1_cache[t]
       /\ \A u \in DOMAIN geocode_cache :
             /\ geocode_reqs'[u] = geocode_reqs[u]
             /\ u \in DOMAIN geocode_cache' /\ geocode_cache'[u] = geocode_cache[u]
       /\ \A i \in DOMAIN log' :
             log'[i].key \in DOMAIN CacheOf(log'[i].fn)
             => ~log'[i].requested /\ log'[i].exc = ""]_vars

\* A step answered a repeated call from the store: the toponym was resolved
\* before and geocode is called on its entity again without a request.
C5_Witness ==
    \E i \in DOMAIN log :
        /\ log[i].fn = "geocode" /\ ~log[i].requested
        /\ geocode_reqs[log[i].key] = 1
        /\ \E j \in DOMAIN log : log[j].fn = "dbpedia_top1" /\ ~log[j].requested

C7_CountedAndSorted ==
    pc = "done"
    => /\ \A i \in 1..Len(df) : df[i].occs = Occurrences(df[i].index)
       /\ \A i, j \in 1..Len(df) : df[i].index = df[j].index => i = j
       /\ \A i \in 1..(Len(df) - 1) : df[i].occs >= df[i + 1].occs

\* The toponym that comes first in loc has fewer occurrences and comes
\* second in the table.
C7_Witness ==
    /\ pc = "done"
    /\ Len(df) = 2
    /\ df[1].occs > df[2].occs
    /\ df[2].index = loc[1]

\* The coordinates of the occurrences i..Len(loc) that the stores give a
\* latitude and a longitude.
RECURSIVE PresentFrom(_)
PresentFrom(i) ==
    IF i > Len(loc) THEN <<>>
    ELSE (IF Present(Coordinate(loc[i])) THEN <<Coordinate(loc[i])>> ELSE <<>>)
         \o PresentFrom(i + 1)

\* C8: the valid coordinate list has one entry per occurrence whose
\* resolution has latitude and longitude, in the order of the occurrences,
\* and none for the others.
C8_ValidCoordinates ==
    pc \in {"count_table", "done"} => coordonnees_valides = PresentFrom(1)

\* A toponym occurs twice with a coordinate and another occurrence is left
\* out.
C8_Witness ==
    /\ pc = "done"
    /\ Len(loc) = 3
    /\ Len(coordonnees_valides) = 2
    /\ coordonnees_valides[1] = coordonnees_valides[2]
    /\ loc[1] = loc[3]

\* C9: a run on the list of the run before, which returned, returns the same
\* coordinate list and the same table, and none of its steps sends a request.
C9_SecondRunIdentical ==
    prev.ran
    => /\ \A i \in DOMAIN log : ~log[i].requested
       /\ ~sparql.sent
       /\ pc # "raised"
       /\ pc = "done" => /\ coordonnees_valides = prev.coordonnees_valides
                         /\ df = prev.df

\* The second run returned a table and a list that are not empty.
C9_Witness ==
    /\ pc = "done"
    /\ prev.ran
    /\ df # <<>>
    /\ coordonnees_valides # <<>>
    /\ Len(loc_dict) = 2

\* C10: on an answer of the service geocode does not raise: it returns the
\* floats of the first binding when that binding has a latitude and a
\* longitude that parse, and (None, None) otherwise.
C10_BothOrNeither ==
    Answered
    => /\ GeocodeCall.exc = ""
       /\ LET c == geocode_cache[sparql.uri]
          IN  IF \E b \in FirstBindings : Parses(b, "lat") /\ Parses(b, "long")
              THEN \A b \in FirstBindings :
                      c = <<FloatRepr[b["lat"].value], FloatRepr[b["long"].value]>>
              ELSE c = <<None, None>>

====
